---- MODULE Spec2Model ----
(***************************************************************************)
(* A model of qmt-mcp (src/main.py): the market-data client XTQuantClient, *)
(* the trading client TradingTools, the report functions of DataAnalyzer,  *)
(* the six registered tools and the process entry point main().            *)
(*                                                                         *)
(* Units.  Prices are integers in cents, volumes are integers, a percent   *)
(* change or a volume ratio that the code rounds to two decimals is an     *)
(* integer in hundredths.  A float that pandas would hold as inf or NaN is *)
(* kept as such: see Ratio.                                                *)
(***************************************************************************)
EXTENDS Integers, Sequences, FiniteSets, TLC

VARIABLES
    connected,   \* XTQuantClient._connected
    xt,          \* XTQuantClient._xt is set (the xtdata module was imported)
    trader,      \* TradingTools.trader is set (live mode); FALSE: simulated mode
    pc,          \* where main() is; "api" while the objects are driven directly
    op,          \* the last call: its name, its arguments, the vendor's answers
    result,      \* what the last call returned
    raised,      \* an exception left the last call
    calls,       \* the vendor SDK calls the last call made, in order
    sent,        \* every order handed to the vendor's order_stock so far
    disconnects  \* main(): number of times the finally block ran disconnect()

vars == <<connected, xt, trader, pc, op, result, raised, calls, sent, disconnects>>

----------------------------------------------------------------------------
(* Program constants *)

MIN_ORDER_QUANTITY == 100
MAX_ORDER_VALUE == 100000
LIMIT_UP_PCT == 950
HEAD_ROWS == 20
MA_SHORT == 5
MA_LONG == 20
NOTABLE_PCT == 7
NOTABLE_RATIO == 2
DEFAULT_THRESHOLD == 200

(* Bounds of the model *)

MaxSymbols == 22
MaxStride == 2
MaxDays == 3
MaxLen == 21
MaxLots == 3

----------------------------------------------------------------------------
(* Floating-point values as the code computes them *)

\* p / q as a float: a number, or IEEE's inf, -inf, NaN for a zero divisor
Ratio(p, q) ==
    IF q = 0
    THEN [k |-> IF p > 0 THEN "inf" ELSE IF p < 0 THEN "ninf" ELSE "nan",
          num |-> 0, den |-> 1]
    ELSE IF q < 0 THEN [k |-> "num", num |-> -p, den |-> -q]
    ELSE [k |-> "num", num |-> p, den |-> q]

\* the integer nearest to p / q (q > 0), a tie going to the even one.  (An exact
\* decimal tie is rare in binary floating point, where it may settle either way;
\* no formula below depends on how a tie settles.)
RoundHalfEven(p, q) ==
    LET f == p \div q
        r == p - f * q
    IN  IF 2 * r < q THEN f
        ELSE IF 2 * r > q THEN f + 1
        ELSE IF f % 2 = 0 THEN f ELSE f + 1

\* .round(2) of a float, and the "{:.2f}" rendering: the value in hundredths
Round2(x) ==
    IF x.k = "num" THEN [k |-> "num", v |-> RoundHalfEven(x.num * 100, x.den)]
    ELSE [k |-> x.k, v |-> 0]

\* x >= h / 100 for an unrounded float x
GeR(x, h) == x.k = "inf" \/ (x.k = "num" /\ x.num * 100 >= h * x.den)

\* x < h / 100 for an unrounded float x
LtR(x, h) == x.k = "ninf" \/ (x.k = "num" /\ x.num * 100 < h * x.den)

\* abs(x)
AbsR(x) ==
    IF x.k = "ninf" THEN [x EXCEPT !.k = "inf"]
    ELSE IF x.k = "num" /\ x.num < 0 THEN [x EXCEPT !.num = -x.num]
    ELSE x

\* x >= h for a value x in hundredths (a comparison with NaN is false)
GeE(x, h) == x.k = "inf" \/ (x.k = "num" /\ x.v >= h)

\* x > y, the order sort_values(ascending=False) puts values in
GtE(x, y) ==
    \/ x.k = "inf" /\ y.k # "inf"
    \/ x.k = "num" /\ y.k = "ninf"
    \/ x.k = "num" /\ y.k = "num" /\ x.v > y.v

RECURSIVE SumSeq(_)
SumSeq(s) == IF s = <<>> THEN 0 ELSE Head(s) + SumSeq(Tail(s))

RECURSIVE MaxSeq(_)
MaxSeq(s) ==
    IF Len(s) = 1 THEN s[1]
    ELSE LET m == MaxSeq(Tail(s)) IN IF s[1] >= m THEN s[1] ELSE m

RECURSIVE MinSeq(_)
MinSeq(s) ==
    IF Len(s) = 1 THEN s[1]
    ELSE LET m == MinSeq(Tail(s)) IN IF s[1] <= m THEN s[1] ELSE m

Last(s) == s[Len(s)]

----------------------------------------------------------------------------
(* XTQuantClient.  c is the client, [connected, xt]; v holds what the     *)
(* vendor SDK answers to each call this invocation makes.  Every operator *)
(* returns the client's new fields, the value returned (ret), whether an  *)
(* exception leaves it (exc) and the vendor calls it made (calls).        *)

Client == [connected |-> connected, xt |-> xt]

\* connect(), the body of its try block
connect_try(c, v) ==
    IF v.imp = "raise"
    THEN [connected |-> c.connected, xt |-> c.xt, ret |-> FALSE, exc |-> TRUE,
          calls |-> <<>>]
    ELSE IF v.connect = "raise"
    THEN [connected |-> c.connected, xt |-> TRUE, ret |-> FALSE, exc |-> TRUE,
          calls |-> <<"connect">>]
    ELSE IF v.dates = "raise"
    THEN [connected |-> c.connected, xt |-> TRUE, ret |-> FALSE, exc |-> TRUE,
          calls |-> <<"connect", "get_trading_dates">>]
    ELSE IF v.dates = "some"
    THEN [connected |-> TRUE, xt |-> TRUE, ret |-> TRUE, exc |-> FALSE,
          calls |-> <<"connect", "get_trading_dates">>]
    ELSE [connected |-> c.connected, xt |-> TRUE, ret |-> FALSE, exc |-> FALSE,
          calls |-> <<"connect", "get_trading_dates">>]

\* connect(): except Exception sets _connected = False and returns False
connect(c, v) ==
    LET b == connect_try(c, v)
    IN  IF b.exc THEN [b EXCEPT !.connected = FALSE, !.ret = FALSE, !.exc = FALSE]
        ELSE b

\* is_connected() answering for the imported module, not the session: the mutant
is_connected_loaded(c) == c.xt

is_connected(c) == c.connected

\* disconnect() with its bare except removed: the mutant of disconnect
disconnect_nocatch(c, v) ==
    IF c.xt /\ v.disc = "raise"
    THEN [connected |-> c.connected, xt |-> c.xt, exc |-> TRUE,
          calls |-> <<"disconnect">>]
    ELSE [connected |-> FALSE, xt |-> c.xt, exc |-> FALSE,
          calls |-> IF c.xt THEN <<"disconnect">> ELSE <<>>]

\* disconnect(): the vendor call only when _xt is set, its failure swallowed
disconnect(c, v) ==
    [connected |-> FALSE, xt |-> c.xt, exc |-> FALSE,
     calls |-> IF c.xt THEN <<"disconnect">> ELSE <<>>]

\* get_market_data(symbol, days): None, or the series as a DataFrame
get_market_data(c, v) ==
    IF ~c.connected THEN [none |-> TRUE, df |-> <<>>, calls |-> <<>>]
    ELSE IF v.md.k \in {"raise", "none"}
    THEN [none |-> TRUE, df |-> <<>>, calls |-> <<"get_market_data">>]
    ELSE [none |-> FALSE, df |-> v.md.df, calls |-> <<"get_market_data">>]

\* get_stock_list(sector): the symbols, [] when not connected or on a failure
get_stock_list(c, v) ==
    IF ~c.connected THEN [ret |-> <<>>, calls |-> <<>>]
    ELSE IF v.list.k \in {"raise", "none"}
    THEN [ret |-> <<>>, calls |-> <<"get_stock_list_in_sector">>]
    ELSE [ret |-> [i \in 1..v.list.n |-> i],
          calls |-> <<"get_stock_list_in_sector">>]

\* get_sector_data(sector, days): None, or the vendor's dict of tables
get_sector_data(c, v) ==
    IF ~c.connected THEN [none |-> TRUE, data |-> v.data, calls |-> <<>>]
    ELSE LET sl == get_stock_list(c, v)
         IN  IF sl.ret = <<>>
             THEN [none |-> TRUE, data |-> v.data, calls |-> sl.calls]
             ELSE IF v.data.k = "raise"
             THEN [none |-> TRUE, data |-> v.data,
                   calls |-> sl.calls \o <<"get_market_data">>]
             ELSE [none |-> FALSE, data |-> v.data,
                   calls |-> sl.calls \o <<"get_market_data">>]

----------------------------------------------------------------------------
(* Results.  tag is the marker the text starts with: "fail" for the cross, *)
(* "ok" for the check mark, "info" for the information sign, "report" for  *)
(* a report header.                                                        *)

Fail(kind) == [tag |-> "fail", kind |-> kind]
Info(kind) == [tag |-> "info", kind |-> kind]
NotConnected == Fail("not_connected")

\* what a function hands back: its value, an escaping exception, its vendor calls
Ret(r, cs) == [ret |-> r, exc |-> FALSE, calls |-> cs]
Exc(cs) == [ret |-> Fail("exception"), exc |-> TRUE, calls |-> cs]

----------------------------------------------------------------------------
(* DataAnalyzer.  A sector table is a sequence of rows, one per symbol of  *)
(* the stock list, each [close, volume] with one value per date column;    *)
(* data.cols is the number of date columns.                                *)

\* the position of a largest value of s (the first one among equals)
RECURSIVE ArgMax(_, _, _)
ArgMax(s, i, best) ==
    IF i > Len(s) THEN best
    ELSE ArgMax(s, i + 1, IF GtE(s[i].val, s[best].val) THEN i ELSE best)

\* sort_values(ascending=True): the mutant of SortDesc
RECURSIVE SortAsc(_)
SortAsc(s) ==
    IF s = <<>> THEN <<>>
    ELSE LET m == ArgMax(s, 2, 1)
         IN  SortAsc(SubSeq(s, 1, m - 1) \o SubSeq(s, m + 1, Len(s))) \o <<s[m]>>

\* sort_values(ascending=False); equal values come out in table order here
\* (pandas leaves their order open)
RECURSIVE SortDesc(_)
SortDesc(s) ==
    IF s = <<>> THEN <<>>
    ELSE LET m == ArgMax(s, 2, 1)
         IN  <<s[m]>> \o SortDesc(SubSeq(s, 1, m - 1) \o SubSeq(s, m + 1, Len(s)))

\* .head(n)
HeadN(s, n) == SubSeq(s, 1, IF Len(s) < n THEN Len(s) ELSE n)

\* ((current_close - pre_close) / pre_close * 100), unrounded
PctOf(pre, cur) == Ratio((cur - pre) * 100, pre)

\* the filter on the unrounded change: the mutant of LimitUpSelected
LimitUpSelectedExact(table, cols) ==
    SelectSeq([i \in 1..Len(table) |->
               [symbol |-> i,
                val |-> Round2(PctOf(table[i].close[cols - 1], table[i].close[cols]))]],
           LAMBDA e : GeR(PctOf(table[e.symbol].close[cols - 1],
                                table[e.symbol].close[cols]), LIMIT_UP_PCT))

\* pct_change[pct_change >= 9.5] on the change rounded to two decimals
LimitUpSelected(table, cols) ==
    SelectSeq([i \in 1..Len(table) |->
               [symbol |-> i,
                val |-> Round2(PctOf(table[i].close[cols - 1], table[i].close[cols]))]],
           LAMBDA e : GeE(e.val, LIMIT_UP_PCT))

\* the report: the total, the top rows, the count of the rest (0: no such line)
ListReport(kind, sorted, table, cols) ==
    [tag |-> "report", kind |-> kind, total |-> Len(sorted),
     rows |-> [j \in 1..Len(HeadN(sorted, HEAD_ROWS)) |->
                  [symbol |-> sorted[j].symbol, val |-> sorted[j].val,
                   price |-> table[sorted[j].symbol].close[cols],
                   vol |-> table[sorted[j].symbol].volume[cols]]],
     more |-> IF Len(sorted) > HEAD_ROWS THEN Len(sorted) - HEAD_ROWS ELSE 0]

\* find_limit_up_stocks(), the body of its try block
find_limit_up_try(c, v) ==
    LET sd == get_sector_data(c, v)
    IN  IF sd.none \/ sd.data.k = "none" THEN Ret(Fail("fetch_failed"), sd.calls)
        ELSE IF sd.data.cols < 2 THEN Exc(sd.calls)
        ELSE LET limit_up == SortDesc(LimitUpSelected(sd.data.table, sd.data.cols))
             IN  IF Len(limit_up) = 0 THEN Ret(Info("no_limit_up"), sd.calls)
                 ELSE Ret(ListReport("limit_up", limit_up, sd.data.table,
                                     sd.data.cols), sd.calls)

\* find_limit_up_stocks(date=None)
find_limit_up_stocks(c, v) ==
    IF ~is_connected(c) THEN Ret(NotConnected, <<>>)
    ELSE LET b == find_limit_up_try(c, v)
         IN  IF b.exc THEN Ret(Fail("stat_failed"), b.calls) ELSE b

\* current_volume / avg_volume, unrounded: the latest column over the mean of the rest
VolumeRatioOf(vols, cols) ==
    Ratio(vols[cols] * (cols - 1), SumSeq(SubSeq(vols, 1, cols - 1)))

\* volume_ratio[volume_ratio >= threshold] on the ratio rounded to two decimals
SurgeSelected(table, cols, threshold) ==
    SelectSeq([i \in 1..Len(table) |->
               [symbol |-> i, val |-> Round2(VolumeRatioOf(table[i].volume, cols))]],
           LAMBDA e : GeE(e.val, threshold))

\* find_volume_surge(), the body of its try block
find_volume_surge_try(c, v, threshold) ==
    LET sd == get_sector_data(c, v)
    IN  IF sd.none \/ sd.data.k = "none" THEN Ret(Fail("fetch_failed"), sd.calls)
        ELSE IF sd.data.cols < 1 THEN Exc(sd.calls)
        ELSE LET surge_stocks ==
                     SortDesc(SurgeSelected(sd.data.table, sd.data.cols, threshold))
             IN  IF Len(surge_stocks) = 0 THEN Ret(Info("no_surge"), sd.calls)
                 ELSE Ret(ListReport("volume_surge", surge_stocks, sd.data.table,
                                     sd.data.cols), sd.calls)

\* find_volume_surge(threshold, days)
find_volume_surge(c, v, threshold) ==
    IF ~is_connected(c) THEN Ret(NotConnected, <<>>)
    ELSE LET b == find_volume_surge_try(c, v, threshold)
         IN  IF b.exc THEN Ret(Fail("analysis_failed"), b.calls) ELSE b

----------------------------------------------------------------------------
(* A market series is a sequence of rows [close, high, low, volume], one   *)
(* per trading day, oldest first.                                          *)

NaN == [k |-> "nan", num |-> 0, den |-> 1]

\* df['close'].rolling(w).mean(), in yuan: NaN until w rows are there
Rolling(df, w) ==
    [i \in 1..Len(df) |->
        IF i < w THEN NaN
        ELSE Ratio(SumSeq([j \in 1..w |-> df[i - w + j].close]), w * 100)]

\* the moving average with the guard on len(df) off by one: the mutant of MovingAverage
MovingAverageLate(df, w) ==
    IF Len(df) > w THEN Last(Rolling(df, w)) ELSE Ratio(Last(df).close, 100)

\* rolling(w).mean().iloc[-1] if len(df) >= w else latest['close']
MovingAverage(df, w) ==
    IF Len(df) >= w THEN Last(Rolling(df, w)) ELSE Ratio(Last(df).close, 100)

\* df.iloc[-2] if len(df) > 1 else latest
PrevRow(df) == IF Len(df) > 1 THEN df[Len(df) - 1] ELSE Last(df)

\* latest['volume'] / df['volume'].mean()
SeriesVolumeRatio(df) ==
    Ratio(Last(df).volume * Len(df), SumSeq([i \in 1..Len(df) |-> df[i].volume]))

\* the stock report, each number as its format renders it
StockReport(df, days) ==
    LET latest == Last(df)
        prev == PrevRow(df)
    IN  [tag |-> "report", kind |-> "stock_info", days |-> days,
         close |-> latest.close, prev_close |-> prev.close,
         pct |-> Round2(PctOf(prev.close, latest.close)),
         low |-> latest.low, high |-> latest.high, volume |-> latest.volume,
         ratio |-> Round2(SeriesVolumeRatio(df)),
         ma5 |-> Round2(MovingAverage(df, MA_SHORT)),
         ma20 |-> Round2(MovingAverage(df, MA_LONG)),
         max_high |-> MaxSeq([i \in 1..Len(df) |-> df[i].high]),
         min_low |-> MinSeq([i \in 1..Len(df) |-> df[i].low]),
         avg_volume |-> RoundHalfEven(SumSeq([i \in 1..Len(df) |-> df[i].volume]),
                                      Len(df))]

\* get_stock_info(symbol, days).  A vendor failure is already turned into None
\* by get_market_data, and the arithmetic on floats does not raise, so the
\* function's own except clause is not reached.
get_stock_info(c, v, days) ==
    IF ~is_connected(c) THEN Ret(NotConnected, <<>>)
    ELSE LET md == get_market_data(c, v)
         IN  IF md.none \/ md.df = <<>> THEN Ret(Fail("no_data"), md.calls)
             ELSE Ret(StockReport(md.df, days), md.calls)

\* the heuristic note: which of the three lines the report carries
DragonTigerReport(df) ==
    LET pct == PctOf(PrevRow(df).close, Last(df).close)
        vr == SeriesVolumeRatio(df)
    IN  [tag |-> "report", kind |-> "dragon_tiger",
         pct |-> Round2(pct), ratio |-> Round2(vr),
         big_move |-> GeR(AbsR(pct), NOTABLE_PCT * 100),
         big_volume |-> GeR(vr, NOTABLE_RATIO * 100),
         quiet |-> LtR(AbsR(pct), NOTABLE_PCT * 100) /\ LtR(vr, NOTABLE_RATIO * 100)]

\* get_dragon_tiger_info(symbol)
get_dragon_tiger_info(c, v) ==
    IF ~is_connected(c) THEN Ret(NotConnected, <<>>)
    ELSE LET md == get_market_data(c, v)
         IN  IF md.none \/ md.df = <<>> THEN Ret(Fail("no_data"), md.calls)
             ELSE Ret(DragonTigerReport(md.df), md.calls)

----------------------------------------------------------------------------
(* TradingTools.  t: the trader handle exists.  An order is [symbol,       *)
(* quantity, price (cents), direction]; orders lists what was handed to    *)
(* the vendor's order_stock.                                               *)

RetT(r, cs, os) == [ret |-> r, exc |-> FALSE, calls |-> cs, orders |-> os]
ExcT(cs, os) == [ret |-> Fail("exception"), exc |-> TRUE, calls |-> cs, orders |-> os]

\* the argument order_stock receives
VendorOrder(a) ==
    [symbol |-> a.symbol, quantity |-> a.quantity, price |-> a.price,
     direction |-> IF a.direction = "BUY" THEN "STOCK_BUY" ELSE "STOCK_SELL"]

\* place_order with the limit test after the submission path: the mutant of place_order_try
place_order_unchecked(t, a, v) ==
    IF a.quantity % MIN_ORDER_QUANTITY # 0 THEN RetT(Fail("bad_quantity"), <<>>, <<>>)
    ELSE IF ~t
    THEN RetT([tag |-> "ok", kind |-> "sim_submitted", order |-> a,
               order_id |-> [numeric |-> FALSE, n |-> v.now]], <<>>, <<>>)
    ELSE IF v.order.k = "raise" THEN ExcT(<<"order_stock">>, <<VendorOrder(a)>>)
    ELSE IF v.order.id > 0
    THEN RetT([tag |-> "ok", kind |-> "submitted",
               order_id |-> [numeric |-> TRUE, n |-> v.order.id]],
              <<"order_stock">>, <<VendorOrder(a)>>)
    ELSE RetT([tag |-> "fail", kind |-> "vendor_rejected", code |-> v.order.id],
              <<"order_stock">>, <<VendorOrder(a)>>)

\* place_order without the simulated branch: self.trader is None, and the
\* attribute lookup on it raises.  The mutant of place_order_try
place_order_nosim(t, a, v) ==
    IF a.quantity % MIN_ORDER_QUANTITY # 0 THEN RetT(Fail("bad_quantity"), <<>>, <<>>)
    ELSE IF a.price * a.quantity > MAX_ORDER_VALUE * 100
    THEN RetT(Fail("over_limit"), <<>>, <<>>)
    ELSE IF ~t THEN ExcT(<<>>, <<>>)
    ELSE IF v.order.k = "raise" THEN ExcT(<<"order_stock">>, <<VendorOrder(a)>>)
    ELSE IF v.order.id > 0
    THEN RetT([tag |-> "ok", kind |-> "submitted",
               order_id |-> [numeric |-> TRUE, n |-> v.order.id]],
              <<"order_stock">>, <<VendorOrder(a)>>)
    ELSE RetT([tag |-> "fail", kind |-> "vendor_rejected", code |-> v.order.id],
              <<"order_stock">>, <<VendorOrder(a)>>)

\* place_order(symbol, quantity, price, direction), the body of its try block
place_order_try(t, a, v) ==
    IF a.quantity % MIN_ORDER_QUANTITY # 0 THEN RetT(Fail("bad_quantity"), <<>>, <<>>)
    ELSE IF a.price * a.quantity > MAX_ORDER_VALUE * 100
    THEN RetT(Fail("over_limit"), <<>>, <<>>)
    ELSE IF ~t
    THEN RetT([tag |-> "ok", kind |-> "sim_submitted", order |-> a,
               order_id |-> [numeric |-> FALSE, n |-> v.now]], <<>>, <<>>)
    ELSE IF v.order.k = "raise" THEN ExcT(<<"order_stock">>, <<VendorOrder(a)>>)
    ELSE IF v.order.id > 0
    THEN RetT([tag |-> "ok", kind |-> "submitted",
               order_id |-> [numeric |-> TRUE, n |-> v.order.id]],
              <<"order_stock">>, <<VendorOrder(a)>>)
    ELSE RetT([tag |-> "fail", kind |-> "vendor_rejected", code |-> v.order.id],
              <<"order_stock">>, <<VendorOrder(a)>>)

\* place_order without its except clause: the mutant of place_order
place_order_nocatch(t, a, v) == place_order_try(t, a, v)

\* place_order: except Exception turns a failure into a text
place_order(t, a, v) ==
    LET b == place_order_try(t, a, v)
    IN  IF b.exc THEN RetT(Fail("order_failed"), b.calls, b.orders) ELSE b

\* cancel_order(order_id), the body of its try block
cancel_order_try(t, a, v) ==
    IF ~t THEN RetT([tag |-> "ok", kind |-> "sim_cancelled", order_id |-> a.order_id],
                    <<>>, <<>>)
    ELSE IF ~a.order_id.numeric THEN ExcT(<<>>, <<>>)
    ELSE IF v.cancel.k = "raise" THEN ExcT(<<"cancel_order_stock">>, <<>>)
    ELSE IF v.cancel.code = 0
    THEN RetT([tag |-> "ok", kind |-> "cancelled"], <<"cancel_order_stock">>, <<>>)
    ELSE RetT(Fail("cancel_failed"), <<"cancel_order_stock">>, <<>>)

\* cancel_order: except Exception turns a failure into a text
cancel_order(t, a, v) ==
    LET b == cancel_order_try(t, a, v)
    IN  IF b.exc THEN RetT(Fail("cancel_failed"), b.calls, b.orders) ELSE b

----------------------------------------------------------------------------
(* What the vendor SDK may answer, and the arguments callers may pass.     *)

NoArgs == [none |-> TRUE]

ConnectAnswers ==
    [imp : {"ok", "raise"}, connect : {"ok", "raise"}, dates : {"some", "none", "raise"}]

DisconnectAnswers == [disc : {"ok", "raise"}]

\* Sector rows, oldest column first.  Closes: +10%, +9.496%, from zero, +20%,
\* +9.5%, +9.4%, all zero, -10%.  Volumes (latest over the mean of the two
\* before): 2.0, 1.996, from zero, 5.0, 1.99, 1.0, all zero, 0.1.
Palette ==
    << [close |-> <<900, 1000, 1100>>,     volume |-> <<500, 500, 1000>>],
       [close |-> <<26000, 25000, 27374>>, volume |-> <<100, 400, 499>>],
       [close |-> <<0, 0, 500>>,           volume |-> <<0, 0, 700>>],
       [close |-> <<1500, 2000, 2400>>,    volume |-> <<200, 400, 1500>>],
       [close |-> <<1000, 1000, 1095>>,    volume |-> <<100, 300, 398>>],
       [close |-> <<1000, 1000, 1094>>,    volume |-> <<300, 300, 300>>],
       [close |-> <<0, 0, 0>>,             volume |-> <<0, 0, 0>>],
       [close |-> <<1100, 1000, 900>>,     volume |-> <<1000, 1000, 100>>] >>

\* column j of a window of d columns: the palette's columns are its last ones
Column(s, j, d) == s[IF j > d - Len(s) THEN j - (d - Len(s)) ELSE 1]

\* n symbols, symbol i taking palette row (i * a) mod m, over d date columns
SectorTable(n, a, m, d) ==
    [i \in 1..n |->
        LET row == Palette[((i * a) % m) + 1]
        IN  [close |-> [j \in 1..d |-> Column(row.close, j, d)],
             volume |-> [j \in 1..d |-> Column(row.volume, j, d)]]]

NoTable(k) == [k |-> k, cols |-> 0, table |-> <<>>]

SectorAnswers(maxN, maxA, maxD) ==
    {[list |-> [k |-> lk, n |-> 0], data |-> NoTable("none")] : lk \in {"raise", "none"}}
    \cup {[list |-> [k |-> "list", n |-> 1], data |-> NoTable(dk)] : dk \in {"raise", "none"}}
    \cup {[list |-> [k |-> "list", n |-> n],
           data |-> [k |-> "data", cols |-> d, table |-> SectorTable(n, a, m, d)]] :
             n \in 0..maxN, a \in 1..maxA, m \in 1..Len(Palette), d \in 0..maxD}

Thresholds == {150, DEFAULT_THRESHOLD, 300}

\* a series of len rows, row i taking its level from (i * a) mod m
Series(len, a, m) ==
    [i \in 1..len |->
        LET x == (i * a) % m
        IN  [close |-> 1000 + 37 * x, high |-> 1005 + 37 * x, low |-> 995 + 37 * x,
             volume |-> 100 * ((x + 1) % m)]]

SeriesAnswers(maxLen, maxA) ==
    {[md |-> [k |-> mk, df |-> <<>>]] : mk \in {"raise", "none"}}
    \cup {[md |-> [k |-> "data", df |-> Series(len, a, m)]] :
             len \in 0..maxLen, a \in 1..maxA, m \in 1..3}

Quantities == {50 * q : q \in -2..(2 * MaxLots)}
Prices == {0, 50000, 100000, 100001}

OrderArgs ==
    [symbol : {"000001.SZ"}, quantity : Quantities, price : Prices,
     direction : {"BUY", "SELL"}]

\* now: the clock reading the simulated order identifier is made from
OrderAnswers ==
    {[now |-> n, order |-> o] :
        n \in {1, 2},
        o \in {[k |-> "raise", id |-> 0], [k |-> "id", id |-> 7], [k |-> "id", id |-> -1]}}

CancelArgs == {[order_id |-> [numeric |-> TRUE, n |-> 7]],
               [order_id |-> [numeric |-> FALSE, n |-> 1]]}

CancelAnswers ==
    {[cancel |-> [k |-> "raise", code |-> 0]], [cancel |-> [k |-> "code", code |-> 0]],
     [cancel |-> [k |-> "code", code |-> -1]]}

(* Bounds of the inputs of the specification that drives the objects directly *)
SmallSymbols == 2
SmallDays == 2
SmallLen == 5

----------------------------------------------------------------------------
(* The calls, as steps.  Each records the call (op), what it returned      *)
(* (result), whether an exception left it (raised) and the vendor calls it *)
(* made (calls, sent).                                                     *)

Returned(name, a, v, r) ==
    /\ op' = [name |-> name, a |-> a, v |-> v]
    /\ result' = r.ret
    /\ raised' = r.exc
    /\ calls' = r.calls

DoConnect(v) ==
    LET r == connect(Client, v)
    IN  /\ connected' = r.connected
        /\ xt' = r.xt
        /\ Returned("connect", NoArgs, v, [r EXCEPT !.ret = [tag |-> "bool", value |-> r.ret]])
        /\ sent' = <<>>
        /\ UNCHANGED trader

DoDisconnect(v) ==
    LET r == disconnect(Client, v)
    IN  /\ connected' = r.connected
        /\ xt' = r.xt
        /\ op' = [name |-> "disconnect", a |-> NoArgs, v |-> v]
        /\ result' = [tag |-> "none"]
        /\ raised' = r.exc
        /\ calls' = r.calls
        /\ sent' = <<>>
        /\ UNCHANGED trader

DoFindLimitUp(v) ==
    /\ Returned("find_limit_up", NoArgs, v, find_limit_up_stocks(Client, v))
    /\ sent' = <<>>
    /\ UNCHANGED <<connected, xt, trader>>

DoFindVolumeSurge(threshold, v) ==
    /\ Returned("find_volume_surge", [threshold |-> threshold], v,
                find_volume_surge(Client, v, threshold))
    /\ sent' = <<>>
    /\ UNCHANGED <<connected, xt, trader>>

DoGetStockInfo(days, v) ==
    /\ Returned("get_stock_info", [days |-> days], v, get_stock_info(Client, v, days))
    /\ sent' = <<>>
    /\ UNCHANGED <<connected, xt, trader>>

DoGetDragonTigerInfo(v) ==
    /\ Returned("get_dragon_tiger_info", NoArgs, v, get_dragon_tiger_info(Client, v))
    /\ sent' = <<>>
    /\ UNCHANGED <<connected, xt, trader>>

DoPlaceOrder(a, v) ==
    LET r == place_order(trader, a, v)
    IN  /\ Returned("place_order", a, v, r)
        /\ sent' = r.orders
        /\ UNCHANGED <<connected, xt, trader>>

DoCancelOrder(a, v) ==
    LET r == cancel_order(trader, a, v)
    IN  /\ Returned("cancel_order", a, v, r)
        /\ sent' = r.orders
        /\ UNCHANGED <<connected, xt, trader>>

NoCall == [name |-> "none", a |-> NoArgs, v |-> NoArgs]

\* the module's objects as constructed: xt_client, and trading_tools in either mode
Constructed ==
    /\ connected = FALSE
    /\ xt = FALSE
    /\ trader \in BOOLEAN
    /\ op = NoCall
    /\ result = [tag |-> "none"]
    /\ raised = FALSE
    /\ calls = <<>>
    /\ sent = <<>>
    /\ disconnects = 0

----------------------------------------------------------------------------
(* Spec: the client's methods and the six tools called in any order.       *)

Connect ==
    /\ pc = "api"
    /\ \E v \in ConnectAnswers : DoConnect(v)
    /\ UNCHANGED <<pc, disconnects>>

Disconnect ==
    /\ pc = "api"
    /\ \E v \in DisconnectAnswers : DoDisconnect(v)
    /\ UNCHANGED <<pc, disconnects>>

Serving == pc \in {"api", "serving"}

FindLimitUp ==
    /\ Serving
    /\ \E v \in SectorAnswers(SmallSymbols, 1, SmallDays) : DoFindLimitUp(v)
    /\ UNCHANGED <<pc, disconnects>>

FindVolumeSurge ==
    /\ Serving
    /\ \E v \in SectorAnswers(SmallSymbols, 1, SmallDays) :
          DoFindVolumeSurge(DEFAULT_THRESHOLD, v)
    /\ UNCHANGED <<pc, disconnects>>

GetStockInfo ==
    /\ Serving
    /\ \E v \in SeriesAnswers(SmallLen, 1) : DoGetStockInfo(30, v)
    /\ UNCHANGED <<pc, disconnects>>

GetDragonTigerInfo ==
    /\ Serving
    /\ \E v \in SeriesAnswers(SmallLen, 1) : DoGetDragonTigerInfo(v)
    /\ UNCHANGED <<pc, disconnects>>

PlaceOrder ==
    /\ Serving
    /\ \E a \in OrderArgs, v \in OrderAnswers : DoPlaceOrder(a, v)
    /\ UNCHANGED <<pc, disconnects>>

CancelOrder ==
    /\ Serving
    /\ \E a \in CancelArgs, v \in CancelAnswers : DoCancelOrder(a, v)
    /\ UNCHANGED <<pc, disconnects>>

Tool ==
    \/ FindLimitUp
    \/ FindVolumeSurge
    \/ GetStockInfo
    \/ GetDragonTigerInfo
    \/ PlaceOrder
    \/ CancelOrder

Init == Constructed /\ pc = "api"

Next == Connect \/ Disconnect \/ Tool

Spec == Init /\ [][Next]_vars

----------------------------------------------------------------------------
(* MainSpec: main().  pc: "start" (before connect), "run" (connect has     *)
(* returned), "serving" (mcp.run is serving), "finally", "done".           *)

\* the ways out of the try block and where each may happen
Ways ==
    {[way |-> "interrupt", at |-> {"start", "run", "serving"}],
     [way |-> "error", at |-> {"start", "run", "serving"}],
     [way |-> "escape", at |-> {"start", "run", "serving"}],
     [way |-> "return", at |-> {"serving"}]}

\* main() with disconnect() after mcp.run instead of in a finally: the mutant of main_after
main_after_nofinally(way) == IF way = "return" THEN "finally" ELSE "done"

\* where control goes when the try block is left: always the finally block
main_after(way) == "finally"

\* if xt_client.connect(): ... else: ...; both branches go on to mcp.run
main_after_connect(ok) == "run"

MainConnect ==
    /\ pc = "start"
    /\ \E v \in ConnectAnswers : DoConnect(v)
    /\ pc' = main_after_connect(result'.value)
    /\ UNCHANGED disconnects

MainRun ==
    /\ pc = "run"
    /\ pc' = "serving"
    /\ UNCHANGED <<connected, xt, trader, op, result, raised, calls, sent, disconnects>>

MainExit ==
    /\ \E w \in Ways :
          /\ pc \in w.at
          /\ pc' = main_after(w.way)
    /\ UNCHANGED <<connected, xt, trader, op, result, raised, calls, sent, disconnects>>

MainFinally ==
    /\ pc = "finally"
    /\ \E v \in DisconnectAnswers : DoDisconnect(v)
    /\ disconnects' = disconnects + 1
    /\ pc' = IF raised' THEN "crashed" ELSE "done"

MainInit == Constructed /\ pc = "start"

MainNext == MainConnect \/ MainRun \/ Tool \/ MainExit \/ MainFinally

\* a running program takes its next step: it starts the transport once connect
\* has returned, and runs its finally block once the try block is left
MainSpec ==
    MainInit /\ [][MainNext]_vars /\ WF_vars(MainRun) /\ WF_vars(MainFinally)

----------------------------------------------------------------------------
(* AnalyzerSpec: each report function applied once to an answer of the     *)
(* vendor drawn from the full input sets.  pc: "input", then "output".     *)

AnalyzerInputs ==
    {[name |-> "find_limit_up", a |-> NoArgs, v |-> v] :
        v \in SectorAnswers(MaxSymbols, MaxStride, MaxDays)}
    \cup {[name |-> "find_volume_surge", a |-> [threshold |-> t], v |-> v] :
        t \in Thresholds, v \in SectorAnswers(MaxSymbols, MaxStride, MaxDays)}
    \cup {[name |-> "get_stock_info", a |-> [days |-> 30], v |-> v] :
        v \in SeriesAnswers(MaxLen, MaxStride)}
    \cup {[name |-> "get_dragon_tiger_info", a |-> NoArgs, v |-> v] :
        v \in SeriesAnswers(MaxLen, MaxStride)}

AnalyzerInit ==
    /\ pc = "input"
    /\ op \in AnalyzerInputs
    /\ connected \in BOOLEAN
    /\ xt = TRUE
    /\ trader = FALSE
    /\ result = [tag |-> "none"]
    /\ raised = FALSE
    /\ calls = <<>>
    /\ sent = <<>>
    /\ disconnects = 0

AFindLimitUp ==
    /\ pc = "input" /\ op.name = "find_limit_up"
    /\ DoFindLimitUp(op.v)
    /\ pc' = "output"
    /\ UNCHANGED disconnects

AFindVolumeSurge ==
    /\ pc = "input" /\ op.name = "find_volume_surge"
    /\ DoFindVolumeSurge(op.a.threshold, op.v)
    /\ pc' = "output"
    /\ UNCHANGED disconnects

AGetStockInfo ==
    /\ pc = "input" /\ op.name = "get_stock_info"
    /\ DoGetStockInfo(op.a.days, op.v)
    /\ pc' = "output"
    /\ UNCHANGED disconnects

AGetDragonTigerInfo ==
    /\ pc = "input" /\ op.name = "get_dragon_tiger_info"
    /\ DoGetDragonTigerInfo(op.v)
    /\ pc' = "output"
    /\ UNCHANGED disconnects

AnalyzerNext == AFindLimitUp \/ AFindVolumeSurge \/ AGetStockInfo \/ AGetDragonTigerInfo

AnalyzerSpec == AnalyzerInit /\ [][AnalyzerNext]_vars

----------------------------------------------------------------------------
(* The claims *)

DataTools ==
    {"find_limit_up", "find_volume_surge", "get_stock_info", "get_dragon_tiger_info"}
TradingToolNames == {"place_order", "cancel_order"}
ToolNames == DataTools \cup TradingToolNames

\* the two limits of an order request, as the specification words them
WithinLimits(o) ==
    /\ \E k \in -1000..1000 : o.quantity = k * MIN_ORDER_QUANTITY
    /\ o.price * o.quantity <= MAX_ORDER_VALUE * 100

(* C1.  A placeOrder whose quantity is not a multiple of the minimum, or   *)
(* whose price * quantity is above the maximum, returns a rejection text   *)
(* and makes no vendor call, in simulated and in live mode; every order    *)
(* handed to the vendor's order_stock is within both limits.  (sent holds  *)
(* the orders of the last call, and the formula holds after every call.)   *)
C1_RejectedBeforeVendor ==
    /\ (op.name = "place_order" /\ ~WithinLimits(op.a)) =>
          /\ result \in {Fail("bad_quantity"), Fail("over_limit")}
          /\ ~raised
          /\ calls = <<>>
          /\ sent = <<>>
    /\ \A i \in 1..Len(sent) : WithinLimits(sent[i])

\* live mode, a quantity that is a multiple, a value above the maximum: rejected
C1_Witness ==
    /\ op.name = "place_order" /\ trader
    /\ op.a.quantity = 2 * MIN_ORDER_QUANTITY
    /\ op.a.price * op.a.quantity > MAX_ORDER_VALUE * 100
    /\ result = Fail("over_limit")

(* C2, as claimed.  In simulated mode placeOrder returns a success message *)
(* with a generated order identifier for every quantity and price.         *)
C2_SimulatedAlwaysSucceeds ==
    (op.name = "place_order" /\ ~trader) =>
        result.tag = "ok" /\ result.kind = "sim_submitted"

(* C2, amended.  In simulated mode placeOrder returns a success message    *)
(* with a generated (timestamp-derived, non-numeric) order identifier for  *)
(* every symbol and direction and every quantity and price within the two  *)
(* limits, without a vendor call; outside the limits it returns the        *)
(* rejection text.                                                         *)
C2_SimulatedSucceedsWithinLimits ==
    (op.name = "place_order" /\ ~trader) =>
        /\ ~raised
        /\ calls = <<>>
        /\ IF WithinLimits(op.a)
           THEN /\ result.tag = "ok" /\ result.kind = "sim_submitted"
                /\ result.order = op.a
                /\ result.order_id = [numeric |-> FALSE, n |-> op.v.now]
           ELSE result.tag = "fail"

C2_Witness ==
    /\ op.name = "place_order" /\ ~trader /\ ~connected
    /\ result.tag = "ok" /\ result.kind = "sim_submitted"

(* C3, as claimed.  While the client is not connected, each of the six     *)
(* tools returns the "not connected" text.                                 *)
C3_AllToolsNotConnected ==
    (~connected /\ op.name \in ToolNames) => (result = NotConnected /\ ~raised)

(* C3, amended.  While the client is not connected, each of the four data  *)
(* tools (findLimitUp, findVolumeSurge, getStockInfo, getDragonTigerInfo)  *)
(* returns the "not connected" text rather than raising, and makes no      *)
(* vendor call.  placeOrder and cancelOrder do not look at the connection. *)
C3_DataToolsNotConnected ==
    (~connected /\ op.name \in DataTools) =>
        (result = NotConnected /\ ~raised /\ calls = <<>>)

\* after a disconnect of a session that had been opened
C3_Witness ==
    /\ ~connected /\ xt
    /\ op.name = "find_volume_surge"
    /\ result = NotConnected

(* C5.  disconnect() never raises, whether or not a connect() came before, *)
(* whether it succeeded, and also when the vendor's disconnect raises; it  *)
(* leaves the client not connected, and a second disconnect() leaves the   *)
(* client as the first did.                                                *)
C5_DisconnectNeverRaises ==
    op.name = "disconnect" =>
        /\ ~raised
        /\ ~connected
        /\ \A v \in DisconnectAnswers :
              LET again == disconnect(Client, v)
              IN  ~again.exc /\ again.connected = connected /\ again.xt = xt

\* the vendor's disconnect was called and raised
C5_Witness ==
    /\ op.name = "disconnect"
    /\ op.v.disc = "raise"
    /\ calls = <<"disconnect">>

\* the vendor call of the last tool call that raised, if one did
RaisedVendorCall ==
    IF op.name \in {"find_limit_up", "find_volume_surge"}
    THEN IF "get_stock_list_in_sector" \in {calls[i] : i \in 1..Len(calls)}
            /\ op.v.list.k = "raise"
         THEN "get_stock_list_in_sector"
         ELSE IF "get_market_data" \in {calls[i] : i \in 1..Len(calls)}
                 /\ op.v.data.k = "raise"
         THEN "get_market_data"
         ELSE "none"
    ELSE IF op.name \in {"get_stock_info", "get_dragon_tiger_info"}
    THEN IF calls # <<>> /\ op.v.md.k = "raise" THEN "get_market_data" ELSE "none"
    ELSE IF op.name = "place_order"
    THEN IF calls # <<>> /\ op.v.order.k = "raise" THEN "order_stock" ELSE "none"
    ELSE IF op.name = "cancel_order"
    THEN IF calls # <<>> /\ op.v.cancel.k = "raise" THEN "cancel_order_stock" ELSE "none"
    ELSE "none"

(* C9.  When a vendor call raises during a tool call, the call returns a   *)
(* failure-tagged text and does not raise; the vendor call that raised is  *)
(* the last one made and was made once; and no tool call changes the       *)
(* client's connection state or the trader.                                *)
C9_VendorFailureContained ==
    /\ [](RaisedVendorCall # "none" =>
            /\ result.tag = "fail"
            /\ ~raised
            /\ Last(calls) = RaisedVendorCall
            /\ Cardinality({i \in 1..Len(calls) : calls[i] = RaisedVendorCall}) = 1)
    /\ [][op'.name \in ToolNames =>
            (connected' = connected /\ xt' = xt /\ trader' = trader)]_vars

\* live mode: order_stock raised
C9_Witness ==
    /\ op.name = "place_order" /\ trader
    /\ op.v.order.k = "raise"
    /\ calls = <<"order_stock">>
    /\ result = Fail("order_failed")

(* C10, as claimed.  After a connect() or a disconnect(), is_connected()   *)
(* is true exactly when that call was a connect() that returned true.      *)
(* (The tools leave the connection state alone: see C9.)                   *)
C10_ConnectedIffLastConnectTrue ==
    /\ op.name = "connect" => (is_connected(Client) <=> result.value)
    /\ op.name = "disconnect" => ~is_connected(Client)


(* C4.  In main(): when connect() returns, true or false, the next step is *)
(* to start the tool transport; main() ends only through its finally       *)
(* block, whichever way the try block was left (interrupt, exception,      *)
(* another exception passing through, normal return); once the try block   *)
(* is left, disconnect() is eventually called, it does not raise, and when *)
(* main() has ended it was called once and the client is not connected.    *)
C4_DisconnectOnEveryExit ==
    /\ [][(pc = "start" /\ op'.name = "connect") => pc' = "run"]_vars
    /\ [][(pc # "done" /\ pc' = "done") =>
            (pc = "finally" /\ op'.name = "disconnect")]_vars
    /\ [](pc = "done" => (disconnects = 1 /\ ~is_connected(Client)))
    /\ [](pc # "crashed")
    /\ (pc = "run") ~> (pc \in {"serving", "finally", "done"})
    /\ (pc = "finally") ~> (pc = "done")

\* main() has ended after serving without a connection: connect() had failed
\* on import, so no vendor disconnect call was due
C4_Witness ==
    /\ pc = "done"
    /\ disconnects = 1
    /\ ~xt
    /\ op.name = "disconnect"


\* the last call was a list report over a well-formed table of at least minCols columns
ListInput(name, minCols) ==
    /\ pc = "output" /\ op.name = name /\ connected
    /\ op.v.list.k = "list" /\ op.v.list.n >= 1
    /\ op.v.data.k = "data" /\ op.v.data.cols >= minCols

\* The report lists exactly the symbols of Q: the total counts them; the rows
\* are the HEAD_ROWS of them with the largest values (all when there are no
\* more), each with its value, in descending order; the remainder is the total
\* less HEAD_ROWS.  With Q empty the call reports that there is none.
ListsExactly(Q, val(_), kind, none) ==
    IF Q = {} THEN result = Info(none) /\ ~raised
    ELSE /\ ~raised
         /\ result.tag = "report" /\ result.kind = kind
         /\ result.total = Cardinality(Q)
         /\ Len(result.rows) =
               (IF Cardinality(Q) > HEAD_ROWS THEN HEAD_ROWS ELSE Cardinality(Q))
         /\ \A j \in 1..Len(result.rows) :
               /\ result.rows[j].symbol \in Q
               /\ result.rows[j].val = val(result.rows[j].symbol)
         /\ \A j, k \in 1..Len(result.rows) :
               /\ j # k => result.rows[j].symbol # result.rows[k].symbol
               /\ j < k => ~GtE(result.rows[k].val, result.rows[j].val)
         /\ \A q \in Q :
               (\A j \in 1..Len(result.rows) : result.rows[j].symbol # q) =>
                   ~GtE(val(q), Last(result.rows).val)
         /\ result.more =
               (IF Cardinality(Q) > HEAD_ROWS THEN Cardinality(Q) - HEAD_ROWS ELSE 0)

PreClose(i) == op.v.data.table[i].close[op.v.data.cols - 1]
CurClose(i) == op.v.data.table[i].close[op.v.data.cols]

\* the change of symbol i as the report shows it, rounded to two decimals
ShownPct(i) == Round2(Ratio((CurClose(i) - PreClose(i)) * 100, PreClose(i)))

\* symbols whose change from prior to latest close is at least 9.5% (a rise
\* from a prior close of zero counting as unbounded)
UpAtLeastLimit ==
    {i \in 1..op.v.list.n :
        \/ PreClose(i) = 0 /\ CurClose(i) > 0
        \/ PreClose(i) > 0 /\ (CurClose(i) - PreClose(i)) * 10000 >= LIMIT_UP_PCT * PreClose(i)}

\* symbols whose change, rounded to two decimals, is at least 9.5%
ShownUpAtLeastLimit == {i \in 1..op.v.list.n : GeE(ShownPct(i), LIMIT_UP_PCT)}

(* C6, as claimed.  findLimitUpStocks reports exactly the symbols whose    *)
(* change from prior close to latest close is >= 9.5%.                     *)
C6_ExactChangeSelected ==
    ListInput("find_limit_up", 2) =>
        ListsExactly(UpAtLeastLimit, ShownPct, "limit_up", "no_limit_up")

(* C6, amended.  findLimitUpStocks reports exactly the symbols whose       *)
(* change from prior close to latest close, rounded to two decimals, is    *)
(* >= 9.5% (so a change of 9.495% or more is reported): the total is their *)
(* number, the rows are the 20 with the largest change (all when at most   *)
(* 20) in descending order, and the remainder is the total minus 20.       *)
C6_RoundedChangeSelected ==
    ListInput("find_limit_up", 2) =>
        ListsExactly(ShownUpAtLeastLimit, ShownPct, "limit_up", "no_limit_up")

\* more than 20 qualify, with different changes among the rows shown
C6_Witness ==
    /\ ListInput("find_limit_up", 2)
    /\ result.tag = "report"
    /\ result.more > 0
    /\ GtE(result.rows[1].val, result.rows[HEAD_ROWS].val)

EarlierVolumes(i) == SubSeq(op.v.data.table[i].volume, 1, op.v.data.cols - 1)
LatestVolume(i) == op.v.data.table[i].volume[op.v.data.cols]

\* the ratio of symbol i as the report shows it, rounded to two decimals
ShownRatio(i) ==
    Round2(Ratio(LatestVolume(i) * Len(EarlierVolumes(i)), SumSeq(EarlierVolumes(i))))

\* symbols whose latest volume is at least threshold times the mean of the
\* earlier days (unbounded when that mean is zero and the latest volume is not)
RatioAtLeast(threshold) ==
    {i \in 1..op.v.list.n :
        \/ Len(EarlierVolumes(i)) > 0 /\ SumSeq(EarlierVolumes(i)) = 0 /\ LatestVolume(i) > 0
        \/ /\ SumSeq(EarlierVolumes(i)) > 0
           /\ LatestVolume(i) * Len(EarlierVolumes(i)) * 100
                 >= threshold * SumSeq(EarlierVolumes(i))}

\* symbols whose ratio, rounded to two decimals, is at least the threshold
ShownRatioAtLeast(threshold) ==
    {i \in 1..op.v.list.n : GeE(ShownRatio(i), threshold)}

(* C7, as claimed.  findVolumeSurge reports exactly the symbols whose      *)
(* ratio of latest volume to the mean of the earlier days is >= threshold. *)
C7_ExactRatioSelected ==
    ListInput("find_volume_surge", 1) =>
        ListsExactly(RatioAtLeast(op.a.threshold), ShownRatio, "volume_surge", "no_surge")

(* C7, amended.  findVolumeSurge reports exactly the symbols whose ratio   *)
(* of latest volume to the mean of the earlier days, rounded to two        *)
(* decimals, is >= threshold, in descending order of ratio, at most 20     *)
(* rows, with a remainder of the total minus 20 when more than 20 qualify. *)
C7_RoundedRatioSelected ==
    ListInput("find_volume_surge", 1) =>
        ListsExactly(ShownRatioAtLeast(op.a.threshold), ShownRatio,
                     "volume_surge", "no_surge")

\* more than 20 qualify, with different ratios among the rows shown
C7_Witness ==
    /\ ListInput("find_volume_surge", 1)
    /\ result.tag = "report"
    /\ result.more > 0
    /\ GtE(result.rows[1].val, result.rows[HEAD_ROWS].val)

\* the closes of the last w rows of the series the vendor returned
LastCloses(w) ==
    [j \in 1..w |-> op.v.md.df[Len(op.v.md.df) - w + j].close]

\* the mean of the last w closes if there are w rows, else the latest close,
\* in cents as "{:.2f}" renders it
ExpectedAverage(w) ==
    IF Len(op.v.md.df) < w
    THEN [k |-> "num", v |-> Last(op.v.md.df).close]
    ELSE [k |-> "num", v |-> RoundHalfEven(SumSeq(LastCloses(w)), w)]

(* C8.  getStockInfo on a series of one row or more returns a report, not  *)
(* a failure; the 5-day average it shows is the latest close with fewer    *)
(* than 5 rows and the mean of the last 5 closes otherwise, likewise the   *)
(* 20-day average with 20; with one row the previous day is the latest.    *)
C8_MovingAverageFallback ==
    (/\ pc = "output" /\ op.name = "get_stock_info" /\ connected
     /\ op.v.md.k = "data" /\ Len(op.v.md.df) >= 1) =>
        /\ ~raised
        /\ result.tag = "report" /\ result.kind = "stock_info"
        /\ result.close = Last(op.v.md.df).close
        /\ result.ma5 = ExpectedAverage(MA_SHORT)
        /\ result.ma20 = ExpectedAverage(MA_LONG)
        /\ Len(op.v.md.df) = 1 =>
              (result.prev_close = result.close /\ result.pct = [k |-> "num", v |-> 0])
        /\ Len(op.v.md.df) > 1 =>
              result.prev_close = op.v.md.df[Len(op.v.md.df) - 1].close

\* four rows: the 5-day average falls back, and differs from the mean of the four
C8_Witness ==
    /\ pc = "output" /\ op.name = "get_stock_info" /\ connected
    /\ op.v.md.k = "data" /\ Len(op.v.md.df) = MA_SHORT - 1
    /\ result.tag = "report"
    /\ result.ma5.v = Last(op.v.md.df).close
    /\ result.ma5.v * (MA_SHORT - 1) # SumSeq(LastCloses(MA_SHORT - 1))

====
